---- MODULE Spec2Model ----
(***************************************************************************)
(* CoreWM Widget (src/packages/default/CoreWM/widget.js): the pointer-drag *)
(* state machine (move / resize, edge sticking, dimension clamping), the   *)
(* envelope hover timers, the debounced settings write and the canvas      *)
(* animation-frame loop, as one state machine.                             *)
(*                                                                         *)
(* JavaScript values: numbers are integers (all inputs are whole pixels    *)
(* and whole milliseconds), `null` is the value null below, the result of  *)
(* 1000 / 0 is Infinity below.  A comparison  a + w/2 >= W/2  is written   *)
(* 2*a + w >= W, which is the same comparison without the fractions.       *)
(*                                                                         *)
(* Time: the program reads the clock only as the difference now - then and *)
(* through timer delays, so the state keeps, per timer, the milliseconds   *)
(* left until it is due and, for the animation loop, now - then.           *)
(***************************************************************************)
EXTENDS Integers, FiniteSets, Sequences, TLC

VARIABLES
    options,          \* this._options (merged over DEFAULT_OPTIONS)
    position,         \* this._position {left, top, right, bottom}
    dimension,        \* this._dimension {width, height}
    isManipulating,   \* this._isManipulating
    windowSize,       \* this._windowWidth / this._windowHeight
    inner,            \* window.innerWidth / window.innerHeight
    requestId,        \* this._requestId
    frame,            \* the callback pending in the animation-frame queue
    anim,             \* fps, fpsInterval and Date.now() - then (locals of _inited)
    saveTimeout,      \* this._saveTimeout: ms until the pending timer is due, or null
    timeout,          \* closure variable timeout of bindWidgetEvents
    timers,           \* the envelope timers the browser holds pending
    element,          \* this._$element is a node, with its two CSS classes
    elementListeners, \* the mousedown/click/mouseover/mouseout bindings exist
    windowListeners,  \* bindings on window in the namespace modifywidget
    cl,               \* closure variables start, position, dimension
    settings,         \* the record last written with settings.set, or none
    hist              \* history: last operation and bookkeeping for the properties

vars == <<options, position, dimension, isManipulating, windowSize, inner,
          requestId, frame, anim, saveTimeout, timeout, timers,
          element,
          elementListeners, windowListeners, cl, settings, hist>>

----------------------------------------------------------------------------
(* JavaScript values *)

null == -999999
Infinity == 999999

\* ToNumber: null is 0 in arithmetic
ToNumber(v) == IF v = null THEN 0 ELSE v

\* ToBoolean of a number or null: null and 0 are falsy
Truthy(v) == v # null /\ v # 0

Min(a, b) == IF a <= b THEN a ELSE b
Max(a, b) == IF a >= b THEN a ELSE b

----------------------------------------------------------------------------
(* Program constants *)

MIN_WIDTH == 64
MIN_HEIGHT == 64
TIMEOUT_SAVE == 500
TIMEOUT_SHOW_ENVELOPE == 3000
TIMEOUT_HIDE_ENVELOPE == 1000

DEFAULT_OPTIONS ==
    [aspect |-> 0, width |-> 100, height |-> 100,
     minWidth |-> MIN_WIDTH, minHeight |-> MIN_HEIGHT,
     maxHeight |-> 500, maxWidth |-> 500,
     left |-> -1, right |-> -1, top |-> 0, bottom |-> 0,
     canvas |-> FALSE, frequency |-> 2]

----------------------------------------------------------------------------
(* Bounds and input sets *)

MaxElapsed == 6      \* clock ticks the animation baseline may lie back
MaxSessions == 2     \* drag sessions (pointer-downs) explored

\* one clock tick; every timer of the program is a multiple of it
TickMs == TIMEOUT_SAVE

\* window.innerWidth / window.innerHeight
Viewport == [w |-> 1024, h |-> 768]

\* options the caller passes (merged over the defaults)
CallerOptions ==
    {[aspect |-> 0, canvas |-> FALSE],
     [aspect |-> 1, canvas |-> FALSE]}

\* options of the canvas widgets
CanvasOptions ==
    {[canvas |-> TRUE, frequency |-> 0],
     [canvas |-> TRUE, frequency |-> 1],
     [canvas |-> TRUE],
     [canvas |-> TRUE, frequency |-> 3]}

\* what settings.get returns for the six stored keys
StoredSettings ==
    {[left |-> 100, top |-> 100, right |-> null, bottom |-> null,
      width |-> 200, height |-> 150],
     [left |-> null, top |-> null, right |-> 224, bottom |-> 100,
      width |-> 200, height |-> 150],
     [left |-> 300, top |-> 200, right |-> null, bottom |-> null,
      width |-> 600, height |-> 40]}

\* where the pointer goes down, and where it moves / goes up
StartPoints == {[x |-> 10, y |-> 10]}
MovePoints == {[x |-> 10, y |-> 10], [x |-> 510, y |-> 10],
               [x |-> 734, y |-> 528], [x |-> -190, y |-> -90],
               [x |-> 60, y |-> 40]}

\* the same, for the runs that also hover, click and leave the widget
HoverPoints == {[x |-> 510, y |-> 10]}

\* the sizes the browser window takes, and the points of a drag in it
Viewports == {Viewport, [w |-> 800, h |-> 600]}
ViewportPoints == {[x |-> 10, y |-> 10], [x |-> 60, y |-> 40]}

----------------------------------------------------------------------------
(* Accessors and geometry (pure functions of the instance fields) *)

\* Widget.prototype._getNormalizedPosition
_getNormalizedPosition(pos, dim, win) ==
    [left |-> IF Truthy(pos.right)
              THEN win.w - pos.right - dim.width
              ELSE pos.left,
     top  |-> IF Truthy(pos.bottom)
              THEN win.h - pos.bottom - dim.height
              ELSE pos.top]

\* Widget.prototype._getDimension
_getDimension(dim) == [width |-> dim.width, height |-> dim.height]

\* Widget.prototype._isPastHalf (obj is always passed by _setPosition)
_isPastHalf(dir, obj, dim, win) ==
    IF dir = "horizontal"
    THEN 2 * ToNumber(obj.left) + dim.width >= win.w
    ELSE 2 * ToNumber(obj.top) + dim.height >= win.h

\* Utils.cloneObject(this._position)
cloneObject(pos) == pos

\* _setPosition measuring the far-edge distance from the anchor point
\* instead of from the widget's far side
_setPosition_NoDimension(objOpt, stick, pos, dim, win) ==
    LET obj == IF objOpt = {} THEN cloneObject(pos) ELSE CHOOSE o \in objOpt : TRUE
        v == stick /\ _isPastHalf("vertical", obj, dim, win)
        h == stick /\ _isPastHalf("horizontal", obj, dim, win)
    IN  [top    |-> IF v THEN null ELSE obj.top,
         left   |-> IF h THEN null ELSE obj.left,
         bottom |-> IF v THEN win.h - ToNumber(obj.top) ELSE null,
         right  |-> IF h THEN win.w - ToNumber(obj.left) ELSE null]

\* Widget.prototype._setPosition: the new this._position.
\* objOpt is {} for a null argument and {obj} otherwise.
_setPosition(objOpt, stick, pos, dim, win) ==
    LET obj == IF objOpt = {} THEN cloneObject(pos) ELSE CHOOSE o \in objOpt : TRUE
        v == stick /\ _isPastHalf("vertical", obj, dim, win)
        h == stick /\ _isPastHalf("horizontal", obj, dim, win)
    IN  [top    |-> IF v THEN null ELSE obj.top,
         left   |-> IF h THEN null ELSE obj.left,
         bottom |-> IF v THEN win.h - dim.height - ToNumber(obj.top) ELSE null,
         right  |-> IF h THEN win.w - dim.width - ToNumber(obj.left) ELSE null]

\* _setDimension without the upper clamp
_setDimension_NoMax(obj, o) ==
    [width  |-> Max(obj.width, o.minWidth),
     height |-> Max(obj.height, o.minHeight)]

\* Widget.prototype._setDimension: the new this._dimension
_setDimension(obj, o) ==
    [width  |-> Min(Max(obj.width, o.minWidth), o.maxWidth),
     height |-> Min(Max(obj.height, o.minHeight), o.maxHeight)]

\* Widget.prototype._saveOptions: the record handed to settings.set
_saveOptions(dim, pos) ==
    [width |-> dim.width, height |-> dim.height,
     left |-> pos.left, top |-> pos.top,
     right |-> pos.right, bottom |-> pos.bottom]

\* Widget.prototype._showEnvelope / _hideEnvelope: the new this._$element
_showEnvelope(el) ==
    IF ~el.node THEN el ELSE [el EXCEPT !.envelope = TRUE]

_hideEnvelope(el, manipulating) ==
    IF ~el.node \/ manipulating THEN el ELSE [el EXCEPT !.envelope = FALSE]

\* the listener adding the pointer's coordinates instead of its delta from
\* the pointer-down point
moveObject_Absolute(action, pos, c, o) ==
    IF action = "move"
    THEN [left |-> ToNumber(c.position.left) + pos.x,
          top  |-> ToNumber(c.position.top) + pos.y]
    ELSE [width  |-> c.dimension.width + pos.x,
          height |-> IF Truthy(o.aspect)
                     THEN c.dimension.height + pos.x
                     ELSE c.dimension.height + pos.y]

\* the listener taking the height from the vertical delta whatever the
\* aspect option says
moveObject_NoAspect(action, pos, c, o) ==
    LET dx == pos.x - c.start.x
        dy == pos.y - c.start.y
    IN  IF action = "move"
        THEN [left |-> ToNumber(c.position.left) + dx,
              top  |-> ToNumber(c.position.top) + dy]
        ELSE [width  |-> c.dimension.width + dx,
              height |-> c.dimension.height + dy]

\* the object the mousemove:modifywidget listener builds from the pointer
moveObject(action, pos, c, o) ==
    LET dx == pos.x - c.start.x
        dy == pos.y - c.start.y
    IN  IF action = "move"
        THEN [left |-> ToNumber(c.position.left) + dx,
              top  |-> ToNumber(c.position.top) + dy]
        ELSE [width  |-> c.dimension.width + dx,
              height |-> IF Truthy(o.aspect)
                         THEN c.dimension.height + dx
                         ELSE c.dimension.height + dy]

\* Math.min(this._options.frequency, 1) in _inited
framesPerSecond(o) == Min(o.frequency, 1)

\* fpsInterval = 1000 / fps
fpsIntervalOf(fps) == IF fps = 0 THEN Infinity ELSE 1000 \div fps

\* the body of animate() after it rescheduled itself, elapsed = now - then:
\* the new now - then, and whether onRender was called
animate(fpsInterval, elapsed) ==
    IF fpsInterval # Infinity /\ elapsed > fpsInterval
    THEN [elapsed |-> elapsed % fpsInterval, render |-> TRUE]
    ELSE [elapsed |-> elapsed, render |-> FALSE]

\* window.cancelAnimationFrame(id) on the pending callback
cancelAnimationFrame(id, pending) ==
    IF pending.id = id THEN [callback |-> "none", id |-> null] ELSE pending

\* the bindings _mouseDown puts on window for a session
sessionListeners(action) ==
    {[type |-> "mousemove", action |-> action],
     [type |-> "mouseup", action |-> action]}

----------------------------------------------------------------------------
(* Construction *)

NoPoint == [x |-> 0, y |-> 0]
NoFrame == [callback |-> "none", id |-> null]
NoTimeout == "none"

\* Utils.mergeObject(DEFAULT_OPTIONS, options)
mergeObject(defaults, o) ==
    [k \in DOMAIN defaults |-> IF k \in DOMAIN o THEN o[k] ELSE defaults[k]]

\* settings.get(key, default) for a stored record, or for an empty store
settingsGet(stored, key, default) ==
    IF stored = {} THEN default ELSE (CHOOSE r \in stored : TRUE)[key]

\* function Widget(name, options, settings): the fields it sets
Widget(callerOptions, stored) ==
    LET o == mergeObject(DEFAULT_OPTIONS, callerOptions)
    IN  /\ options = o
        /\ position = [left   |-> settingsGet(stored, "left", o.left),
                       top    |-> settingsGet(stored, "top", o.top),
                       right  |-> settingsGet(stored, "right", o.right),
                       bottom |-> settingsGet(stored, "bottom", o.bottom)]
        /\ dimension = [height |-> settingsGet(stored, "height", o.height),
                        width  |-> settingsGet(stored, "width", o.width)]
        /\ isManipulating = FALSE
        /\ windowSize = Viewport
        /\ requestId = null
        /\ saveTimeout = null
        /\ element = [node |-> FALSE, canvas |-> FALSE,
                      active |-> FALSE, envelope |-> FALSE]

Constructed(callers) ==
    /\ \E co \in callers, st \in {{}} \cup {{r} : r \in StoredSettings} :
           Widget(co, st)
    /\ inner = Viewport
    /\ frame = NoFrame
    /\ anim = [fps |-> null, fpsInterval |-> null, elapsed |-> null]
    /\ timeout = NoTimeout
    /\ timers = {}
    /\ elementListeners = FALSE
    /\ windowListeners = {}
    /\ cl = [start |-> NoPoint,
             position |-> [left |-> null, top |-> null],
             dimension |-> [width |-> null, height |-> null]]
    /\ settings = {}
    /\ hist = [op |-> "construct", action |-> "none", pos |-> NoPoint,
               phase |-> "constructed", destroyed |-> FALSE,
               sessions |-> 0, inSession |-> FALSE,
               sinceUp |-> null, writes |-> 0, upState |-> {},
               restarted |-> FALSE, pendingAtDestroy |-> FALSE,
               downPos |-> NoPoint, downPosition |-> {},
               downDimension |-> {}, before |-> FALSE, stale |-> FALSE,
               envEvent |-> "none", cancelled |-> {}, downStale |-> FALSE,
               otherDestroyed |-> FALSE]

Init == Constructed(CallerOptions)

InitCanvas == Constructed(CanvasOptions)

\* the history record after operation op
Did(op, action, pos) ==
    [hist EXCEPT !.op = op, !.action = action, !.pos = pos, !.before = FALSE]

\* the history record after the pointer event ev, which cleared the timer
\* its handler found pending
DidEnvelope(h, ev) ==
    [h EXCEPT !.envEvent = ev,
              !.cancelled = {t.kind : t \in timers \ timers'}]

----------------------------------------------------------------------------
(* Lifecycle *)

\* Widget.prototype.init with bindWidgetEvents
init ==
    /\ hist.phase = "constructed"
    /\ UNCHANGED timers
    /\ windowSize' = inner
    /\ element' = [node |-> TRUE, canvas |-> options.canvas,
                   active |-> FALSE, envelope |-> FALSE]
    /\ timeout' = NoTimeout
    /\ cl' = [start |-> NoPoint,
              position |-> _getNormalizedPosition(position, dimension, inner),
              dimension |-> _getDimension(dimension)]
    /\ elementListeners' = TRUE
    /\ hist' = [Did("init", "none", NoPoint) EXCEPT !.phase = "mounted"]
    /\ UNCHANGED <<options, position, dimension, isManipulating, inner,
                   requestId, frame, anim, saveTimeout, windowListeners,
                   settings>>

\* Widget.prototype._inited
_inited ==
    /\ hist.phase = "mounted"
    /\ ~hist.destroyed
    /\ IF element.canvas
       THEN /\ anim' = [anim EXCEPT !.fps = framesPerSecond(options)]
            /\ requestId' = 1
            /\ frame' = [callback |-> "first", id |-> 1]
       ELSE UNCHANGED <<anim, requestId, frame>>
    /\ hist' = [Did("_inited", "none", NoPoint) EXCEPT !.phase = "inited"]
    /\ UNCHANGED <<options, position, dimension, isManipulating, windowSize,
                   inner, saveTimeout, timeout, timers, element, elementListeners,
                   windowListeners, cl, settings>>

\* the callback _inited handed to requestAnimationFrame: sets the interval
\* and the baseline (then = now), then runs animate() once
FirstFrame ==
    /\ frame.callback = "first"
    /\ LET i == fpsIntervalOf(anim.fps)
           r == animate(i, 0)
       IN  /\ anim' = [anim EXCEPT !.fpsInterval = i, !.elapsed = r.elapsed]
           /\ hist' = Did(IF r.render THEN "onRender" ELSE "frame", "none", NoPoint)
    /\ frame' = [callback |-> "animate", id |-> 2]
    /\ UNCHANGED <<options, position, dimension, isManipulating, windowSize,
                   inner, requestId, saveTimeout, timeout, timers, element,
                   elementListeners, windowListeners, cl, settings>>

\* animate() run by the animation-frame queue
AnimationFrame ==
    /\ frame.callback = "animate"
    /\ LET r == animate(anim.fpsInterval, anim.elapsed)
       IN  /\ anim' = [anim EXCEPT !.elapsed = r.elapsed]
           /\ hist' = Did(IF r.render THEN "onRender" ELSE "frame", "none", NoPoint)
    /\ frame' = [callback |-> "animate", id |-> 2]
    /\ UNCHANGED <<options, position, dimension, isManipulating, windowSize,
                   inner, requestId, saveTimeout, timeout, timers, element,
                   elementListeners, windowListeners, cl, settings>>

\* destroy leaving the debounce timer pending
clearSaveTimeout_Forgotten(t) == t

\* this._saveTimeout = clearTimeout(this._saveTimeout) in destroy
clearSaveTimeout(t) == null

\* Widget.prototype.destroy
destroy ==
    /\ hist.phase \in {"mounted", "inited"}
    /\ ~hist.destroyed
    /\ windowListeners' = {}
    /\ elementListeners' = FALSE
    /\ saveTimeout' = clearSaveTimeout(saveTimeout)
    /\ frame' = IF Truthy(requestId)
                THEN cancelAnimationFrame(requestId, frame)
                ELSE frame
    /\ requestId' = null
    /\ element' = [element EXCEPT !.node = FALSE, !.canvas = FALSE]
    /\ hist' = [Did("destroy", "none", NoPoint) EXCEPT
                   !.destroyed = TRUE, !.pendingAtDestroy = saveTimeout # null]
    /\ UNCHANGED <<options, position, dimension, isManipulating, windowSize,
                   inner, anim, timeout, timers, cl, settings>>

----------------------------------------------------------------------------
(* Interaction controller *)

\* a handler that starts its timer without cancelling the one pending
clearTimeout_Keep(handle, pending) == pending

\* clearTimeout(timeout): the pending timers without the one the handle
\* names (a handle names the timer by what it will do)
clearTimeout(handle, pending) == {t \in pending : t.kind # handle}

\* setTimeout(callback, delay): the pending timers with the new one
setTimeout(kind, delay, pending) == pending \cup {[kind |-> kind, in |-> delay]}

\* the closure variables after _mouseDown captured them
capture(pos, p, dim, win) ==
    [start |-> pos,
     position |-> _getNormalizedPosition(p, dim, win),
     dimension |-> _getDimension(dim)]

\* Widget.prototype._onMouseDown: the new this._position
_onMouseDown(action, p, dim, win) ==
    IF action = "resize"
    THEN _setPosition({_getNormalizedPosition(p, dim, win)}, FALSE, p, dim, win)
    ELSE p

\* mousedown:movewidget / mousedown:resizewidget -> _mouseDown(ev, pos, action).
\* A button goes down only after the previous one was released.
MouseDown(action, pos) ==
    /\ elementListeners
    /\ windowListeners = {}
    /\ hist.sessions < MaxSessions
    /\ timers' = clearTimeout(timeout, timers)
    /\ timeout' = NoTimeout
    /\ cl' = capture(pos, position, dimension, windowSize)
    /\ windowListeners' = sessionListeners(action)
    /\ windowSize' = inner
    /\ element' = [element EXCEPT !.active = TRUE]
    /\ position' = _onMouseDown(action, position, dimension, inner)
    /\ hist' = [DidEnvelope(Did("mousedown", action, pos), "down") EXCEPT
                   !.sessions = @ + 1, !.inSession = TRUE,
                   !.downPos = pos, !.downPosition = {position},
                   !.downDimension = {dimension},
                   !.downStale = windowSize # inner,
                   !.upState = {}]
    /\ UNCHANGED <<options, dimension, isManipulating, inner, requestId, frame,
                   anim, saveTimeout, elementListeners, settings>>

\* Widget.prototype._onMouseMove: the new position and dimension
_onMouseMove(obj, action, p, dim, win, o) ==
    IF action = "move"
    THEN [position |-> _setPosition({obj}, TRUE, p, dim, win), dimension |-> dim]
    ELSE [position |-> p, dimension |-> _setDimension(obj, o)]

\* the mousemove:modifywidget listener on window
MouseMove(pos) ==
    \E l \in windowListeners :
        /\ l.type = "mousemove"
        /\ LET r == _onMouseMove(moveObject(l.action, pos, cl, options), l.action,
                                 position, dimension, windowSize, options)
           IN  /\ position' = r.position
               /\ dimension' = r.dimension
        /\ isManipulating' = TRUE
        /\ hist' = [Did("mousemove", l.action, pos) EXCEPT
                       !.stale = @ \/ ~hist.inSession]
        /\ UNCHANGED <<options, windowSize, inner, requestId, frame, anim,
                       saveTimeout, timeout, timers, element, elementListeners,
                       windowListeners, cl, settings>>

\* Widget.prototype._onMouseUp: the new this._position
_onMouseUp(action, p, dim, win) ==
    IF action = "resize" THEN _setPosition({}, TRUE, p, dim, win) ELSE p

\* _onMouseUp starting a timer only when none is pending
restartSaveTimeout_Keep(previous) ==
    IF previous # null THEN previous ELSE TIMEOUT_SAVE

\* this._saveTimeout after _onMouseUp cleared the previous timer and
\* started a new one
restartSaveTimeout(previous) == TIMEOUT_SAVE

\* a mouseup listener that leaves the session's listeners bound
afterMouseUp_NoUnbind(listeners) == listeners

\* the listeners on window after the mouseup listener unbound
\* mousemove:modifywidget and mouseup:modifywidget
afterMouseUp(listeners) == {}

\* the mouseup:modifywidget listener on window
MouseUp(pos) ==
    \E l \in windowListeners :
        /\ l.type = "mouseup"
        /\ windowListeners' = afterMouseUp(windowListeners)
        /\ isManipulating' = FALSE
        /\ element' = _hideEnvelope([element EXCEPT !.active = FALSE], FALSE)
        /\ position' = _onMouseUp(l.action, position, dimension, windowSize)
        /\ saveTimeout' = restartSaveTimeout(saveTimeout)
        /\ hist' = [Did("mouseup", l.action, pos) EXCEPT
                       !.inSession = FALSE, !.sinceUp = 0, !.writes = 0,
                       !.stale = @ \/ ~hist.inSession,
                       !.restarted = saveTimeout # null,
                       !.upState = {_saveOptions(dimension, position')}]
        /\ UNCHANGED <<options, dimension, windowSize, inner, requestId, frame,
                       anim, timeout, timers, elementListeners, cl, settings>>

\* the timer callback of _onMouseUp: self._saveOptions()
SaveTimeout ==
    /\ saveTimeout = 0
    /\ settings' = {_saveOptions(dimension, position)}
    /\ saveTimeout' = null
    /\ hist' = [Did("save", "none", NoPoint) EXCEPT !.writes = Min(@ + 1, 2)]
    /\ UNCHANGED <<options, position, dimension, isManipulating, windowSize,
                   inner, requestId, frame, anim, timeout, timers, element,
                   elementListeners, windowListeners, cl>>

----------------------------------------------------------------------------
(* Envelope *)

\* click:showenvelope (a click follows a button release)
Click ==
    /\ elementListeners
    /\ windowListeners = {}
    /\ timers' = clearTimeout(timeout, timers)
    /\ timeout' = NoTimeout
    /\ element' = _showEnvelope(element)
    /\ hist' = DidEnvelope(Did("click", "none", NoPoint), "click")
    /\ UNCHANGED <<options, position, dimension, isManipulating, windowSize,
                   inner, requestId, frame, anim, saveTimeout,
                   elementListeners, windowListeners, cl, settings>>

\* mouseover:showenvelope
MouseOver ==
    /\ elementListeners
    /\ timers' = setTimeout("show", TIMEOUT_SHOW_ENVELOPE,
                            clearTimeout(timeout, timers))
    /\ timeout' = "show"
    /\ hist' = DidEnvelope(Did("mouseover", "none", NoPoint), "over")
    /\ UNCHANGED <<options, position, dimension, isManipulating, windowSize,
                   inner, requestId, frame, anim, saveTimeout, element,
                   elementListeners, windowListeners, cl, settings>>

\* mouseout:hideenvelope
MouseOut ==
    /\ elementListeners
    /\ timers' = setTimeout("hide", TIMEOUT_HIDE_ENVELOPE,
                            clearTimeout(timeout, timers))
    /\ timeout' = "hide"
    /\ hist' = DidEnvelope(Did("mouseout", "none", NoPoint), "out")
    /\ UNCHANGED <<options, position, dimension, isManipulating, windowSize,
                   inner, requestId, frame, anim, saveTimeout, element,
                   elementListeners, windowListeners, cl, settings>>

\* the timer callback of mouseover:showenvelope
ShowTimeout ==
    /\ [kind |-> "show", in |-> 0] \in timers
    /\ timers' = timers \ {[kind |-> "show", in |-> 0]}
    /\ element' = _showEnvelope(element)
    /\ UNCHANGED timeout
    /\ hist' = Did("showTimeout", "none", NoPoint)
    /\ UNCHANGED <<options, position, dimension, isManipulating, windowSize,
                   inner, requestId, frame, anim, saveTimeout,
                   elementListeners, windowListeners, cl, settings>>

\* the timer callback of mouseout:hideenvelope
HideTimeout ==
    /\ [kind |-> "hide", in |-> 0] \in timers
    /\ timers' = timers \ {[kind |-> "hide", in |-> 0]}
    /\ element' = _hideEnvelope(element, isManipulating)
    /\ UNCHANGED timeout
    /\ hist' = [Did("hideTimeout", "none", NoPoint) EXCEPT
                   !.before = element.envelope]
    /\ UNCHANGED <<options, position, dimension, isManipulating, windowSize,
                   inner, requestId, frame, anim, saveTimeout,
                   elementListeners, windowListeners, cl, settings>>

----------------------------------------------------------------------------
(* Browser window *)

\* the user resizes the browser window between two drags: window.innerWidth
\* and window.innerHeight change, and the widget records nothing
WindowResize(v) ==
    /\ hist.phase # "constructed"
    /\ windowListeners = {}
    /\ v # inner
    /\ inner' = v
    /\ hist' = Did("windowResize", "none", NoPoint)
    /\ UNCHANGED <<options, position, dimension, isManipulating, windowSize,
                   requestId, frame, anim, saveTimeout, timeout, timers,
                   element, elementListeners, windowListeners, cl, settings>>

\* Utils.$unbind(el, 'type:namespace'): the listeners bound on el without
\* those of that name, whichever instance bound them
unbind(listeners, type) == {l \in listeners : l.type # type}

\* destroy() of a second widget on the same window: of this widget's state
\* it touches the listeners bound on window
OtherDestroy ==
    /\ ~hist.otherDestroyed
    /\ windowListeners' = unbind(unbind(windowListeners, "mousemove"), "mouseup")
    /\ hist' = [Did("otherDestroy", "none", NoPoint) EXCEPT
                   !.otherDestroyed = TRUE]
    /\ UNCHANGED <<options, position, dimension, isManipulating, windowSize,
                   inner, requestId, frame, anim, saveTimeout, timeout, timers,
                   element, elementListeners, cl, settings>>

----------------------------------------------------------------------------
(* Time *)

\* a timer whose delay has elapsed runs before the clock moves on
TimerDue == saveTimeout = 0 \/ \E t \in timers : t.in = 0

\* ms left on a timer after one more tick
Later(t) == IF t = null THEN null ELSE t - TickMs

\* TickMs pass
Tick ==
    /\ ~TimerDue
    /\ anim.elapsed # null => anim.elapsed + TickMs <= MaxElapsed * TickMs
    /\ saveTimeout' = Later(saveTimeout)
    /\ timers' = {[t EXCEPT !.in = Later(@)] : t \in timers}
    /\ UNCHANGED timeout
    /\ anim' = [anim EXCEPT !.elapsed = IF @ = null THEN null ELSE @ + TickMs]
    /\ hist' = [Did("tick", "none", NoPoint) EXCEPT
                   !.sinceUp = IF @ = null THEN null
                               ELSE Min(@ + TickMs, 2 * TIMEOUT_SAVE)]
    /\ UNCHANGED <<options, position, dimension, isManipulating, windowSize,
                   inner, requestId, frame, element, elementListeners,
                   windowListeners, cl, settings>>

----------------------------------------------------------------------------

Next ==
    \/ init
    \/ _inited
    \/ destroy
    \/ \E a \in {"move", "resize"}, p \in StartPoints : MouseDown(a, p)
    \/ \E p \in MovePoints : MouseMove(p)
    \/ \E p \in MovePoints : MouseUp(p)
    \/ SaveTimeout
    \/ Tick

Spec == Init /\ [][Next]_vars

\* the same widget with the pointer also hovering, clicking and leaving
NextEnvelope ==
    \/ init
    \/ _inited
    \/ destroy
    \/ \E a \in {"move", "resize"}, p \in StartPoints : MouseDown(a, p)
    \/ \E p \in HoverPoints : MouseMove(p)
    \/ \E p \in HoverPoints : MouseUp(p)
    \/ SaveTimeout
    \/ Click
    \/ MouseOver
    \/ MouseOut
    \/ ShowTimeout
    \/ HideTimeout
    \/ Tick

SpecEnvelope == Init /\ [][NextEnvelope]_vars

\* the same widget dragged in a browser window that changes size
NextViewport ==
    \/ init
    \/ _inited
    \/ destroy
    \/ \E a \in {"move", "resize"}, p \in StartPoints : MouseDown(a, p)
    \/ \E p \in ViewportPoints : MouseMove(p)
    \/ \E p \in ViewportPoints : MouseUp(p)
    \/ SaveTimeout
    \/ \E v \in Viewports : WindowResize(v)
    \/ Tick

SpecViewport == Init /\ [][NextViewport]_vars

\* the same widget next to a second one that is destroyed at some point
NextTwo ==
    \/ init
    \/ _inited
    \/ destroy
    \/ \E a \in {"move", "resize"}, p \in StartPoints : MouseDown(a, p)
    \/ \E p \in MovePoints : MouseMove(p)
    \/ \E p \in MovePoints : MouseUp(p)
    \/ SaveTimeout
    \/ OtherDestroy
    \/ Tick

SpecTwo == Init /\ [][NextTwo]_vars

\* a canvas widget that is mounted, animated and destroyed, the pointer away
NextCanvas ==
    \/ init
    \/ _inited
    \/ FirstFrame
    \/ AnimationFrame
    \/ destroy
    \/ Tick

SpecCanvas == InitCanvas /\ [][NextCanvas]_vars

----------------------------------------------------------------------------
(* Properties of the animation loop (SpecCanvas) *)

\* C1: after destroy(), onRender is never invoked again, however many
\* frames ran before destroy.
C1_NoRenderAfterDestroy == ~(hist.destroyed /\ hist.op = "onRender")

\* C2: once the loop runs, the render interval is 1000 / max(frequency, 1)
\* ms: 500 ms for frequency 2, and 1000 ms (never a stall) for frequency 0.
C2_RenderInterval ==
    anim.fpsInterval # null =>
        anim.fpsInterval = 1000 \div Max(options.frequency, 1)

----------------------------------------------------------------------------
(* Properties of the drag (Spec) *)

MovedAs(action) == hist.op = "mousemove" /\ hist.action = action

Clamp(v, lo, hi) == Min(Max(v, lo), hi)

\* the pointer delta of the last pointer event, from the pointer-down point
Dx == hist.pos.x - hist.downPos.x
Dy == hist.pos.y - hist.downPos.y

\* C3: after every resize pointer-move the dimension lies within
\* [minWidth, maxWidth] x [minHeight, maxHeight].
C3_ResizeClamped ==
    MovedAs("resize") =>
        /\ options.minWidth <= dimension.width
        /\ dimension.width <= options.maxWidth
        /\ options.minHeight <= dimension.height
        /\ dimension.height <= options.maxHeight

\* a resize move whose proposed width exceeds maxWidth and whose proposed
\* height falls below minHeight
C3_Witness ==
    /\ MovedAs("resize")
    /\ options.minWidth <= options.maxWidth
    /\ options.minHeight <= options.maxHeight
    /\ cl.dimension.width + Dx > options.maxWidth
    /\ dimension.width = options.maxWidth
    /\ \E d \in hist.downDimension : d.height + Dy < options.minHeight

\* the last operation ended in _setPosition(..., stick = true)
Stuck == MovedAs("move") \/ (hist.op = "mouseup" /\ hist.action = "resize")

\* C4: right after any _setPosition call with stick = true, exactly one of
\* (left, right) and exactly one of (top, bottom) is non-null, the call on
\* pointer-up after a resize included.
C4_OneAnchorPerAxis ==
    Stuck =>
        /\ (position.left = null) # (position.right = null)
        /\ (position.top = null) # (position.bottom = null)

\* C5: normalizing a right/bottom-anchored position and re-sticking it, with
\* viewport and dimension unchanged, gives back the same right/bottom with
\* left/top null, right = 0 and bottom = 0 included.
C5_RoundTrip ==
    hist.phase # "constructed" =>
        LET n == _getNormalizedPosition(position, dimension, windowSize)
            r == _setPosition({n}, TRUE, position, dimension, windowSize)
        IN  /\ (position.left = null /\ position.right # null) =>
                (r.right = position.right /\ r.left = null)
            /\ (position.top = null /\ position.bottom # null) =>
                (r.bottom = position.bottom /\ r.top = null)

C9_Sticking ==
    MovedAs("move") =>
        LET left == ToNumber(cl.position.left) + Dx
            top == ToNumber(cl.position.top) + Dy
        IN  /\ IF 2 * left + dimension.width >= inner.w
               THEN position.right = inner.w - dimension.width - left
                    /\ position.left = null
               ELSE position.left = left /\ position.right = null
            /\ IF 2 * top + dimension.height >= inner.h
               THEN position.bottom = inner.h - dimension.height - top
                    /\ position.top = null
               ELSE position.top = top /\ position.bottom = null

\* the example: viewport 1024x768, widget 200x150 at left 100, top 100,
\* dragged by (+500, 0)
C9_Witness ==
    /\ MovedAs("move")
    /\ inner = [w |-> 1024, h |-> 768]
    /\ dimension = [width |-> 200, height |-> 150]
    /\ cl.position = [left |-> 100, top |-> 100]
    /\ Dx = 500 /\ Dy = 0
    /\ position = [left |-> null, right |-> 224, top |-> 100, bottom |-> null]

\* C10: every resize pointer-move of a session, the first included, sets
\* the dimension to the clamped sum of the dimension captured at that
\* session's pointer-down and the delta from the pointer-down point (the
\* horizontal delta on both axes under aspect lock), whatever the anchor
\* form at pointer-down.
C10_ResizeFromBaseline ==
    MovedAs("resize") =>
        \A d \in hist.downDimension :
            /\ dimension.width =
                   Clamp(d.width + Dx, options.minWidth, options.maxWidth)
            /\ dimension.height =
                   Clamp(d.height + (IF options.aspect # 0 THEN Dx ELSE Dy),
                         options.minHeight, options.maxHeight)

\* a resize move, neither axis clamped, on a widget that was right- and
\* bottom-anchored at pointer-down
C10_Witness ==
    /\ MovedAs("resize")
    /\ \E p \in hist.downPosition :
           /\ p.left = null /\ p.right # null
           /\ p.top = null /\ p.bottom # null
    /\ \E d \in hist.downDimension :
           /\ dimension.width = d.width + Dx
           /\ dimension.height = d.height + Dy
           /\ cl.dimension = d
           /\ Dx # 0 /\ Dy # 0

\* C11: in every reachable state, whatever the settings held at
\* construction, the dimension lies within [minWidth, maxWidth] x
\* [minHeight, maxHeight].
C11_AlwaysClamped ==
    /\ options.minWidth <= dimension.width
    /\ dimension.width <= options.maxWidth
    /\ options.minHeight <= dimension.height
    /\ dimension.height <= options.maxHeight

\* C12: on a resize pointer-move with delta (dx, dy) the proposed dimension
\* is baseline width + dx by baseline height + dx under aspect lock, and
\* baseline width + dx by baseline height + dy otherwise, each then clamped.
C12_AspectDelta ==
    MovedAs("resize") =>
        LET dx == hist.pos.x - cl.start.x
            dy == hist.pos.y - cl.start.y
            w == cl.dimension.width + dx
            h == IF options.aspect = 1
                 THEN cl.dimension.height + dx
                 ELSE cl.dimension.height + dy
        IN  dimension = [width  |-> Clamp(w, options.minWidth, options.maxWidth),
                         height |-> Clamp(h, options.minHeight, options.maxHeight)]

\* a resize move under aspect lock whose deltas differ and whose height,
\* unclamped, followed the horizontal one
C12_Witness ==
    /\ MovedAs("resize")
    /\ options.aspect = 1
    /\ Dx # Dy
    /\ dimension.height = cl.dimension.height + Dx
    /\ dimension.height # cl.dimension.height + Dy
    /\ dimension.height < options.maxHeight

\* the left / top at which _updatePosition has the browser draw the widget
\* (right / bottom win when they are not null)
AbsoluteLeft(pos, dim, win) ==
    IF pos.right # null THEN win.w - pos.right - dim.width ELSE pos.left
AbsoluteTop(pos, dim, win) ==
    IF pos.bottom # null THEN win.h - pos.bottom - dim.height ELSE pos.top

\* C13: for every stored position _getNormalizedPosition returns
\* left = viewportWidth - right - width when the widget is right-anchored
\* (right non-null, left null), top = viewportHeight - bottom - height when
\* it is bottom-anchored, the anchors 0 included, and the stored left / top
\* otherwise.
C13_Normalized ==
    hist.phase # "constructed" =>
        LET n == _getNormalizedPosition(position, dimension, windowSize)
        IN  /\ n.left = IF position.right # null /\ position.left = null
                        THEN windowSize.w - position.right - dimension.width
                        ELSE position.left
            /\ n.top = IF position.bottom # null /\ position.top = null
                       THEN windowSize.h - position.bottom - dimension.height
                       ELSE position.top

\* C17: the settings are never written between a pointer-down and its
\* pointer-up.
C17_NoWriteInSession ==
    hist.op = "save" => ~hist.inSession

\* C18: in a move session begun after the viewport changed since its size
\* was last recorded, a pointer-move with zero delta leaves a right-anchored
\* widget at the same on-screen left, and a bottom-anchored one at the same
\* on-screen top, as before the pointer-down.
C18_BaselineInCurrentViewport ==
    (MovedAs("move") /\ hist.downStale /\ Dx = 0 /\ Dy = 0) =>
        \A d \in hist.downPosition, dd \in hist.downDimension :
            /\ Truthy(d.right) =>
                   AbsoluteLeft(position, dimension, inner)
                       = AbsoluteLeft(d, dd, inner)
            /\ Truthy(d.bottom) =>
                   AbsoluteTop(position, dimension, inner)
                       = AbsoluteTop(d, dd, inner)

\* C19: after the pointer-up of a resize session the widget's top-left
\* corner is where it was before the pointer-down: the normalized left / top
\* are the same, and so is the place the widget is drawn at.
C19_ResizeKeepsTopLeft ==
    (hist.op = "mouseup" /\ hist.action = "resize") =>
        \A d \in hist.downPosition, dd \in hist.downDimension :
            /\ _getNormalizedPosition(position, dimension, windowSize)
                   = _getNormalizedPosition(d, dd, windowSize)
            /\ AbsoluteLeft(position, dimension, windowSize)
                   = AbsoluteLeft(d, dd, windowSize)
            /\ AbsoluteTop(position, dimension, windowSize)
                   = AbsoluteTop(d, dd, windowSize)

\* C20: with a second widget on the same window, whatever that widget does
\* (its destroy() included), a widget in a drag session keeps its
\* pointer-move and pointer-up listeners on window until its own pointer-up.
C20_OtherDestroyHarmless ==
    (hist.inSession /\ ~hist.destroyed) =>
        /\ \E l \in windowListeners : l.type = "mousemove"
        /\ \E l \in windowListeners : l.type = "mouseup"

\* C14: the window-level pointer-move and pointer-up listeners of a session
\* are gone when its pointer-up handling has run, so that handling runs once
\* per session and no pointer-move or pointer-up handler runs (and changes
\* position, dimension or the manipulating flag) between a pointer-up and
\* the next pointer-down.
C14_TornDownBeforeUp ==
    /\ hist.op = "mouseup" => windowListeners = {}
    /\ ~hist.inSession => windowListeners = {}
    /\ ~hist.stale

\* the pointer-up of a second session that moved the widget: the handling
\* ran, the listeners are gone and the first session's reacted to nothing
C14_Witness ==
    /\ hist.op = "mouseup"
    /\ hist.sessions = 2
    /\ {position} # hist.downPosition
    /\ windowListeners = {}
    /\ ~isManipulating

----------------------------------------------------------------------------
(* Properties of teardown and of the envelope (SpecEnvelope) *)

\* C7: after destroy(), mid-drag or not, no window-level listener of the
\* widget remains, no debounce timer is pending, no pointer event is handled
\* and the settings handle is not written.
C7_DestroyStopsWrites ==
    hist.destroyed =>
        /\ windowListeners = {}
        /\ ~elementListeners
        /\ saveTimeout = null
        /\ hist.op \notin {"save", "mousedown", "mousemove", "mouseup"}

\* destroy() mid-drag with a debounce timer pending, and more than
\* TIMEOUT_SAVE gone by since
C7_Witness ==
    /\ hist.destroyed
    /\ hist.inSession
    /\ hist.pendingAtDestroy
    /\ hist.sinceUp > TIMEOUT_SAVE
    /\ settings = {}

\* C8: a hide-timer expiry between a session's pointer-down and its
\* pointer-up leaves the envelope as it was.
C8_NoHideWhileDragging ==
    (hist.op = "hideTimeout" /\ hist.inSession) =>
        element.envelope = hist.before

\* C15: once destroy() has returned no timer of the widget is pending,
\* neither the debounce timer nor an envelope show or hide timer, and no
\* envelope timer callback runs.
C15_NoTimerAfterDestroy ==
    hist.destroyed =>
        /\ saveTimeout = null
        /\ timers = {}
        /\ hist.op \notin {"showTimeout", "hideTimeout"}

\* C16: at most one envelope timer is pending; a show callback runs only
\* when the hover that started it was the last hover, pointer-out, click or
\* pointer-down, and a hide callback only when its pointer-out was.
C16_OneEnvelopeTimer ==
    /\ Cardinality(timers) <= 1
    /\ hist.op = "showTimeout" => hist.envEvent = "over"
    /\ hist.op = "hideTimeout" => hist.envEvent = "out"

\* a pointer-out cancelled a pending show timer, and its hide callback ran
\* on an envelope the hover never showed
C16_Witness ==
    /\ hist.op = "hideTimeout"
    /\ hist.cancelled = {"show"}
    /\ ~hist.before
    /\ ~element.envelope
    /\ timers = {}

====
